---------------------------- MODULE Spec2Model ----------------------------
(***************************************************************************)
(* Cause-list scraper (src/main.py, src/courts.py): fetch_list ->          *)
(* extract_csv -> clean_csv -> process_csv for every court class, with the *)
(* per-court watermark last_list_date kept in the courts table.            *)
(*                                                                         *)
(* Text is modelled as a sequence of tokens (a cell "X Versus Y" is        *)
(* <<"X", " ", "Versus", " ", "Y">>); a row is a sequence of cells and a   *)
(* table (a DataFrame, a csv file) a sequence of rows.  Python's 0-based   *)
(* row[k] is row[k+1] here.                                                *)
(***************************************************************************)
EXTENDS Integers, Sequences, FiniteSets, TLC

(***************************************************************************)
(* Text helpers                                                            *)
(***************************************************************************)

\* str.strip(): leading and trailing whitespace removed
RECURSIVE LStrip(_)
LStrip(s) == IF s # <<>> /\ Head(s) = " " THEN LStrip(Tail(s)) ELSE s

RECURSIVE RStrip(_)
RStrip(s) ==
    IF s # <<>> /\ s[Len(s)] = " " THEN RStrip(SubSeq(s, 1, Len(s) - 1)) ELSE s

Strip(s) == RStrip(LStrip(s))

DigitTok == <<"0", "1", "2", "3", "4", "5", "6", "7", "8", "9">>

\* str.isdigit(): non-empty and digits only
IsDigit(s) ==
    /\ s # <<>>
    /\ \A i \in 1..Len(s) : \E d \in 1..Len(DigitTok) : s[i] = DigitTok[d]

\* `sub in s` for a marker sub
Contains(s, sub) ==
    \E i \in 1..(Len(s) - Len(sub) + 1) : SubSeq(s, i, i + Len(sub) - 1) = sub

\* any(word in s.upper() for word in ["VERSUS", "VS", "V."]); the tokens of
\* the alphabet whose upper case holds one of the three words
UpperJoinTokens == {"Versus", "VERSUS", "vs", "VS", "V.", "v."}

HasJoinWord(s) == \E i \in 1..Len(s) : s[i] \in UpperJoinTokens

\* str.split(';')
RECURSIVE SplitSemi(_)
SplitSemi(s) ==
    IF \E i \in 1..Len(s) : s[i] = ";"
    THEN LET i == CHOOSE k \in 1..Len(s) :
                      s[k] = ";" /\ \A j \in 1..(k - 1) : s[j] # ";"
         IN  <<SubSeq(s, 1, i - 1)>> \o SplitSemi(SubSeq(s, i + 1, Len(s)))
    ELSE <<s>>

Max(a, b) == IF a > b THEN a ELSE b
Min(a, b) == IF a < b THEN a ELSE b

RECURSIVE MaxWidth(_)
MaxWidth(rows) ==
    IF rows = <<>> THEN 0 ELSE Max(Len(Head(rows)), MaxWidth(Tail(rows)))

\* row + [''] * (w - len(row))
PadRow(row, w) == [j \in 1..Max(w, Len(row)) |-> IF j <= Len(row) THEN row[j] ELSE <<>>]

RECURSIVE Concat(_)
Concat(ss) == IF ss = <<>> THEN <<>> ELSE Head(ss) \o Concat(Tail(ss))

\* the label pandas gives column number k (0-based), as written to a csv header
ColLabel(k) == <<DigitTok[k + 1]>>

(***************************************************************************)
(* Gauhati_court.clean_csv                                                 *)
(***************************************************************************)

headers ==
    << <<"Sr.No.">>, <<"Case Number">>, <<"Main Parties">>,
       <<"Petitioner Advocate">>, <<"Respondent Advocate">> >>

\* current_case = None
NoCase == <<>>

\* lines 220-233: the record a start row opens
GOpen(row) ==
    << Strip(row[1]), Strip(row[2]),
       IF Len(row) > 2 /\ row[3] # <<>> THEN Strip(row[3]) ELSE <<>>,
       IF Len(row) > 3 /\ row[4] # <<>> THEN Strip(row[4]) ELSE <<>>,
       IF Len(row) > 4 /\ row[5] # <<>> THEN Strip(row[5]) ELSE <<>> >>

\* lines 253-263: an advocate cell appended with "; "
GAdvocate(cur, row, k) ==
    IF Len(row) >= k /\ row[k] # <<>>
    THEN IF cur[k] # <<>> THEN cur[k] \o <<";", " ">> \o Strip(row[k])
                          ELSE Strip(row[k])
    ELSE cur[k]

\* lines 236-251: the if/elif chain on the case-number and parties cells
GCaseCell(cur, row) ==
    IF Len(row) > 2 /\ row[3] # <<>> /\ Contains(row[3], <<"Versus">>) THEN cur[2]
    ELSE IF Len(row) > 1 /\ row[2] # <<>> /\ Contains(row[2], <<"WITH">>) THEN cur[2]
    ELSE IF Len(row) > 1 /\ row[2] # <<>> /\ Contains(row[2], <<"in", " ">>)
         THEN IF cur[2] # <<>> THEN cur[2] \o <<";", " ">> \o Strip(row[2])
                               ELSE cur[2]
    ELSE cur[2]

GPartiesCell(cur, row) ==
    IF Len(row) > 2 /\ row[3] # <<>> /\ Contains(row[3], <<"Versus">>) THEN cur[3]
    ELSE IF Len(row) > 1 /\ row[2] # <<>> /\ Contains(row[2], <<"WITH">>) THEN cur[3]
    ELSE IF Len(row) > 1 /\ row[2] # <<>> /\ Contains(row[2], <<"in", " ">>) THEN cur[3]
    ELSE IF Len(row) > 2 /\ row[3] # <<>>
         THEN IF cur[3] # <<>>
              THEN IF Contains(row[3], <<"THE", " ">>) \/ HasJoinWord(cur[3])
                   THEN cur[3] \o <<" ", "vs", " ">> \o Strip(row[3])
                   ELSE cur[3] \o <<" ">> \o Strip(row[3])
              ELSE Strip(row[3])
    ELSE cur[3]

\* lines 235-263: a continuation row merged into the open record
GMerge(cur, row) ==
    << cur[1], GCaseCell(cur, row), GPartiesCell(cur, row),
       GAdvocate(cur, row, 4), GAdvocate(cur, row, 5) >>

\* One pass of the while loop (lines 213-265) over one row. st.err is the
\* IndexError of row[0] on a row without cells, or of row[1] on a start row
\* with one cell, which leaves the loop for the except clause.
GStep(st, row) ==
    IF st.err THEN st
    ELSE IF Len(row) = 0 THEN [st EXCEPT !.err = TRUE]
    ELSE IF row[1] # <<>> /\ IsDigit(Strip(row[1]))
         THEN IF Len(row) < 2 THEN [st EXCEPT !.err = TRUE]
              ELSE [cur |-> GOpen(row),
                    out |-> IF st.cur # NoCase THEN Append(st.out, st.cur)
                                               ELSE st.out,
                    err |-> FALSE]
    ELSE IF row[1] = <<>> /\ st.cur # NoCase
         THEN [st EXCEPT !.cur = GMerge(st.cur, row)]
    ELSE st

GInit == [cur |-> NoCase, out |-> <<headers>>, err |-> FALSE]

RECURSIVE GLoop(_, _)
GLoop(st, data) == IF data = <<>> THEN st ELSE GLoop(GStep(st, Head(data)), Tail(data))

\* GFlush without lines 267-268: the record open at the end is lost
GFlushNone(st) == st.out

\* lines 267-268: the open record is flushed at the end of the input
GFlush(st) == IF st.cur # NoCase THEN Append(st.out, st.cur) ELSE st.out

\* clean_csv(input_file) on a file holding data: the value returned and the
\* rows the file holds afterwards (unchanged when the except clause ran)
GFinish(data, st) ==
    IF st.err THEN [ok |-> FALSE, rows |-> data]
    ELSE [ok |-> TRUE, rows |-> GFlush(st)]

GauhatiClean(data) == GFinish(data, GLoop(GInit, data))

(***************************************************************************)
(* Allahabad_court.clean_csv                                               *)
(***************************************************************************)

\* line 435: cleaned_df.drop(index=range(0,5))
DropRows == 5

\* lines 401-407: one cell of a continuation row merged into the open row
AMergeCell(c, cell) ==
    IF Strip(cell) # <<>>
    THEN IF Strip(c) # <<>> THEN Strip(c) \o <<" ">> \o Strip(cell) ELSE Strip(cell)
    ELSE c

\* One pass of the for loop (lines 392-407) over one padded row; st.open is
\* `current is not None`.
AStep(st, row) ==
    IF st.err THEN st
    ELSE IF Len(row) = 0 THEN [st EXCEPT !.err = TRUE]
    ELSE IF Strip(row[1]) # <<>>
         THEN [cur |-> row,
               out |-> IF st.open THEN Append(st.out, st.cur) ELSE st.out,
               open |-> TRUE, err |-> FALSE]
    ELSE IF ~st.open THEN [st EXCEPT !.cur = row, !.open = TRUE]
    ELSE [st EXCEPT !.cur = [i \in 1..Len(row) |-> AMergeCell(st.cur[i], row[i])]]

AInit == [cur |-> <<>>, out |-> <<>>, open |-> FALSE, err |-> FALSE]

RECURSIVE ALoop(_, _)
ALoop(st, rows) == IF rows = <<>> THEN st ELSE ALoop(AStep(st, Head(rows)), Tail(rows))

\* line 387: padded_rows
Padded(rows) == [r \in 1..Len(rows) |-> PadRow(rows[r], MaxWidth(rows))]

\* lines 408-409: the open row is flushed at the end of the input
AFlush(st) == IF st.open THEN Append(st.out, st.cur) ELSE st.out

\* line 414: the columns with a cell != '' in some row
AKeptCols(merged) ==
    {j \in 1..MaxWidth(merged) : \E r \in 1..Len(merged) : merged[r][j] # <<>>}

RECURSIVE SortedSeq(_)
SortedSeq(S) ==
    IF S = {} THEN <<>>
    ELSE LET m == CHOOSE x \in S : \A y \in S : x <= y
         IN  <<m>> \o SortedSeq(S \ {m})

NonBlank(cell) == Strip(cell) # <<>>

\* lines 419-421: the values of one row of df that are not blank
ANonEmptyValues(row, cols) ==
    SelectSeq([k \in 1..Len(cols) |-> row[cols[k]]], NonBlank)

\* lines 411-439 after the loop ended in st: the value returned (ok) and the
\* rows the file holds afterwards. A file with fewer than 5 merged rows
\* raises KeyError in drop (line 435) and is left as it was.
AFinish(rows, st) ==
    IF st.err THEN [ok |-> FALSE, rows |-> rows]
    ELSE
    LET merged  == AFlush(st)
        cols    == SortedSeq(AKeptCols(merged))
        cleaned_rows == [r \in 1..Len(merged) |-> ANonEmptyValues(merged[r], cols)]
        w       == MaxWidth(cleaned_rows)
        padded  == [r \in 1..Len(cleaned_rows) |-> PadRow(cleaned_rows[r], w)]
        labels  == IF w = Len(cols)
                   THEN [k \in 1..w |-> ColLabel(cols[k] - 1)]
                   ELSE [k \in 1..w |-> ColLabel(k - 1)]
    IN  IF Len(padded) < DropRows THEN [ok |-> FALSE, rows |-> rows]
        ELSE [ok |-> TRUE,
              rows |-> <<labels>> \o SubSeq(padded, DropRows + 1, Len(padded))]

\* clean_csv(input_file) on a file holding rows; an empty file returns
\* early (line 384)
AllahabadClean(rows) ==
    IF rows = <<>> THEN [ok |-> TRUE, rows |-> rows]
    ELSE AFinish(rows, ALoop(AInit, Padded(rows)))

(***************************************************************************)
(* process_pdf: page ranges and the csv of the extracted tables            *)
(***************************************************************************)

\* line 37: chunk_size=50
DefaultChunkSize == 50

\* range(2, num_pages, chunk_size)
RECURSIVE RangeStarts(_, _, _)
RangeStarts(start, stop, step) ==
    IF start >= stop THEN <<>>
    ELSE <<start>> \o RangeStarts(start + step, stop, step)

\* line 44: page_ranges, each "start-end" as <<start, end>>
PageRanges(num_pages, chunk_size) ==
    LET starts == RangeStarts(2, num_pages, chunk_size)
    IN  [k \in 1..Len(starts) |->
            <<starts[k], Min(starts[k] + chunk_size - 1, num_pages)>>]

\* line 49: the results that are not None, in the order of page_ranges
NoTable == [none |-> TRUE, rows |-> <<>>]

\* extract_csv returned the DataFrame of the tables found
Found(rows) == [none |-> FALSE, rows |-> rows]

\* ValidResults giving nothing as soon as one result is None
ValidResultsAllOrNothing(results) ==
    IF \E k \in 1..Len(results) : results[k] = NoTable THEN <<>>
    ELSE [k \in 1..Len(results) |-> results[k].rows]

ValidResults(results) ==
    LET valid == SelectSeq(results, LAMBDA r : r # NoTable)
    IN  [k \in 1..Len(valid) |-> valid[k].rows]

\* lines 51-55: pd.concat(valid_results, ignore_index=True).to_csv(csv_path,
\* index=False): a header row of column labels, then every row padded (NaN
\* is written as the empty cell) to the widest table
ToCsv(valid_results) ==
    LET rows == Concat(valid_results)
        w    == MaxWidth(rows)
    IN  << [k \in 1..w |-> ColLabel(k - 1)] >>
        \o [r \in 1..Len(rows) |-> PadRow(rows[r], w)]

(***************************************************************************)
(* The courts, the dates and the persisted watermark                       *)
(***************************************************************************)

\* main.py line 68: inspect.getmembers returns the classes sorted by name;
\* Super_Class does not end with "court"
CourtOrder == <<"Allahabad_court", "Gauhati_court">>

Courts == {CourtOrder[k] : k \in 1..Len(CourtOrder)}

\* Dates are 1..MaxDate; a listing shows at most MaxList entries.
MaxDate == 3
MaxList == 2

\* date.today() (courts.py lines 161, 294)
Today == 1

\* A date as text: the date it spells and whether more text follows its
\* first ten characters (the td of the Gauhati table holds the link text).
Text(d, tail) == [d |-> d, tail |-> tail]

\* last_list_date is NULL
NoDate == [d |-> 0, tail |-> FALSE]

ParseError == -1

\* datetime.strptime(text.strip(), fmt).date(): ValueError ("unconverted
\* data remains") on text that goes on after the date
ParseDate(text) == IF text.tail THEN ParseError ELSE text.d

\* text[:10]
FirstTen(text) == Text(text.d, FALSE)

\* lines 159-163, 292-296: the date the listing is compared with
LastDate(wm) == IF wm = NoDate THEN Today ELSE ParseDate(wm)

\* The listings a site can show: newest first, no date twice. Only the
\* first entry's trailing text is ever read whole (new_date).
Listings ==
    {L \in UNION {[1..n -> [d : 1..MaxDate, tail : BOOLEAN]] : n \in 0..MaxList} :
        /\ \A i \in 1..(Len(L) - 1) : L[i].d > L[i + 1].d
        /\ \A i \in 2..Len(L) : ~L[i].tail}

\* NewerPrefix with <= for <: a list of the watermark's own date is taken again
RECURSIVE NewerOrEqualPrefix(_, _)
NewerOrEqualPrefix(last, ds) ==
    IF ds = <<>> \/ ~(last <= Head(ds)) THEN <<>>
    ELSE <<Head(ds)>> \o NewerOrEqualPrefix(last, Tail(ds))

\* lines 171-182, 311-355: the entries the loop accepts before it breaks
RECURSIVE NewerPrefix(_, _)
NewerPrefix(last, ds) ==
    IF ds = <<>> \/ ~(last < Head(ds)) THEN <<>>
    ELSE <<Head(ds)>> \o NewerPrefix(last, Tail(ds))

NoFiles == <<>>

\* Raised handing main the files downloaded before the exception
RaisedReturnsDownloaded(wm, examined, downloaded) ==
    [ret |-> downloaded, raised |-> TRUE, wm |-> wm,
     examined |-> examined, downloaded |-> downloaded]

\* The except clause of fetch_list (lines 190-192, 362-365): None is
\* returned, no UPDATE has run
Raised(wm, examined, downloaded) ==
    [ret |-> NoFiles, raised |-> TRUE, wm |-> wm,
     examined |-> examined, downloaded |-> downloaded]

\* ScanListing without the test of line 185 / 357: the UPDATE always runs
ScanListingAlwaysUpdate(wm, last, L, fail) ==
    LET P == NewerPrefix(last, [i \in 1..Len(L) |-> ParseDate(FirstTen(L[i]))])
        reach == Min(Len(P) + 1, Len(L))
    IN  IF fail \in 1..reach
        THEN [ret |-> NoFiles, raised |-> TRUE, wm |-> wm,
              examined |-> fail, downloaded |-> SubSeq(P, 1, fail - 1)]
        ELSE [ret |-> P, raised |-> FALSE, wm |-> L[1],
              examined |-> reach, downloaded |-> P]

\* The loop over the listing and the UPDATE after it (lines 169-189 and
\* 308-360). fail = k >= 1: handling the k-th entry raises (find_element,
\* requests.get, open, a page that does not load); the accepted entries
\* before it are on disk. new_date is the first entry's text.
ScanListing(wm, last, L, fail) ==
    LET P == NewerPrefix(last, [i \in 1..Len(L) |-> ParseDate(FirstTen(L[i]))])
        reach == Min(Len(P) + 1, Len(L))
    IN  IF fail \in 1..reach
        THEN Raised(wm, fail, SubSeq(P, 1, fail - 1))
        ELSE [ret |-> P, raised |-> FALSE,
              wm |-> IF P # <<>> THEN L[1] ELSE wm,
              examined |-> reach, downloaded |-> P]

\* Gauhati_court.fetch_list with the persisted watermark wm, the site
\* showing L; fail = -1: the driver, the connection or the page fails
\* before the loop.
GauhatiFetch(wm, L, fail) ==
    IF fail = -1 \/ LastDate(wm) = ParseError \/ L = <<>>
    THEN Raised(wm, 0, <<>>)
    ELSE ScanListing(wm, LastDate(wm), L, fail)

\* AllahabadFetch with the UPDATE moved into the loop: a failure after a
\* download leaves the watermark advanced
AllahabadFetchUpdatesInLoop(wm, L, fail) ==
    IF fail = -1 \/ LastDate(wm) = ParseError \/ L = <<>>
    THEN Raised(wm, 0, <<>>)
    ELSE IF ParseDate(L[1]) = ParseError THEN Raised(wm, 1, <<>>)
    ELSE LET r == ScanListing(wm, LastDate(wm), L, fail)
         IN  IF r.raised /\ r.downloaded # <<>> THEN [r EXCEPT !.wm = L[1]] ELSE r

\* Allahabad_court.fetch_list: new_date is date_list[0].text, every entry
\* is parsed whole (d.text.strip()).
AllahabadFetch(wm, L, fail) ==
    IF fail = -1 \/ LastDate(wm) = ParseError \/ L = <<>>
    THEN Raised(wm, 0, <<>>)
    ELSE IF ParseDate(L[1]) = ParseError THEN Raised(wm, 1, <<>>)
    ELSE ScanListing(wm, LastDate(wm), L, fail)

FetchList(c, wm, L, fail) ==
    IF c = "Gauhati_court" THEN GauhatiFetch(wm, L, fail)
    ELSE AllahabadFetch(wm, L, fail)

(***************************************************************************)
(* The world outside: the documents the sites publish, the tables camelot  *)
(* finds in them, the lawyers registered in the database                   *)
(***************************************************************************)

\* get_page_count of the document a site publishes for date d
DocPages(d) == IF d % 3 = 1 THEN 1 ELSE IF d % 2 = 0 THEN 53 ELSE 52

Cell(t) == <<t>>

\* The table of the k-th page range of a Gauhati cause list
GauhatiTable(k) ==
    IF k % 2 = 1
    THEN << << Cell("1"), Cell("A/1/2024"), <<"X", " ", "Versus", " ", "Y">>,
               Cell("Adv1"), <<>> >>,
            << <<>>, <<>>, <<>>, Cell("Adv2"), <<>> >> >>
    ELSE << << Cell("2"), <<>>, Cell("P"), <<>>, <<>> >>,
            << Cell("3"), Cell("B/2/2024"), Cell("Q"), <<>>, Cell("Adv3") >> >>

Boiler(k) == << <<"Court", " ", DigitTok[k + 1]>>, <<>>, <<>> >>

\* The table of the k-th page range of an Allahabad cause list: the first
\* pages open with four rows of court headings
AllahabadTable(k) ==
    IF k % 2 = 1
    THEN << Boiler(1), Boiler(2), Boiler(3), Boiler(4),
            << Cell("1"), <<"WRIT", " ", "A/1/2024">>, Cell("X") >>,
            << <<>>, <<>>, <<"Versus", " ", "Y">> >> >>
    ELSE << << Cell("2"), Cell("P"), <<>> >>,
            << Cell("3"), <<"B/2/2024">>, Cell("Q") >> >>

ChunkTable(c, k) == IF c = "Gauhati_court" THEN GauhatiTable(k) ELSE AllahabadTable(k)

\* The tokens r"([A-Z0-9]+)/(\d+)/(\d{4})" matches
CaseTokens == {"A/1/2024", "B/2/2024", "C/3/2024"}

\* case_number = None
NoCaseNumber == <<"None">>

\* get_user_detail: the rows of lawyers joined to the case (lines 87-95)
Lawyers(case_no) ==
    IF case_no = Cell("A/1/2024") THEN <<"w1", "w2">>
    ELSE IF case_no = Cell("B/2/2024") THEN <<"w3">>
    ELSE <<>>

(***************************************************************************)
(* process_csv: one row of the csv file                                    *)
(***************************************************************************)

\* csv.DictReader: the position of a field in the header row, 0 when the
\* header has no such field (row[name] raises KeyError)
FieldIndex(header, name) ==
    IF \E j \in 1..Len(header) : header[j] = name
    THEN CHOOSE j \in 1..Len(header) :
             header[j] = name /\ \A k \in (j + 1)..Len(header) : header[k] # name
    ELSE 0

Field(header, row, name) ==
    IF FieldIndex(header, name) <= Len(row) THEN row[FieldIndex(header, name)] ELSE <<>>

\* Super_Class.process_csv lines 137-140: the record read back from a row
SuperRecord(header, row) ==
    [case_number |-> Field(header, row, headers[2]),
     main_parties |-> Field(header, row, headers[3]),
     petitioner_advocates |->
         IF Field(header, row, headers[4]) # <<>>
         THEN SplitSemi(Field(header, row, headers[4])) ELSE <<>>,
     respondent_advocates |->
         IF Field(header, row, headers[5]) # <<>>
         THEN SplitSemi(Field(header, row, headers[5])) ELSE <<>>]

\* line 137 raises KeyError when the file is not the cleaned one
SuperKeyError(header) == \E k \in 2..5 : FieldIndex(header, headers[k]) = 0

\* re.search(r"([A-Z0-9]+)/(\d+)/(\d{4})", cell)
HasCaseToken(cell) == \E i \in 1..Len(cell) : cell[i] \in CaseTokens

FirstCaseToken(cell) ==
    cell[CHOOSE i \in 1..Len(cell) :
             cell[i] \in CaseTokens /\ \A j \in 1..(i - 1) : cell[j] \notin CaseTokens]

\* Allahabad_court.process_csv lines 448-464; pos is i after the while loop
\* (0-based), the cells after it are the parties and the advocates
AllahabadRecord(row) ==
    LET hits == {i \in 1..Len(row) : HasCaseToken(row[i])}
        pos  == IF hits = {} THEN Len(row)
                ELSE (CHOOSE i \in hits : \A j \in hits : i <= j) - 1
        at(k) == IF k < Len(row) THEN row[k + 1] ELSE <<>>
    IN  [case_number |-> IF hits = {} THEN NoCaseNumber
                         ELSE Cell(FirstCaseToken(row[pos + 1])),
         main_parties |-> at(pos + 1),
         petitioner_advocates |-> at(pos + 2),
         respondent_advocates |-> at(pos + 3)]

\* clean_csv of the court's class
CleanCsv(c, rows) ==
    IF c = "Gauhati_court" THEN GauhatiClean(rows) ELSE AllahabadClean(rows)

(***************************************************************************)
(* State                                                                   *)
(***************************************************************************)

VARIABLES
    watermark,    \* courts.last_list_date of every court (the database)
    temp_pdf,     \* the dates whose pdf is in temp_pdf
    temp_csv,     \* the dates whose csv is in temp_csv
    pc,           \* where main is
    ci,           \* the court of the for loop of main (index in CourtOrder)
    pdf_files,    \* what fetch_list returned to main
    pi,           \* the file of the for loop of main (index in pdf_files)
    num_pages,    \* process_pdf: num_pages
    chunk_size,   \* process_pdf: chunk_size
    page_ranges,  \* process_pdf: page_ranges
    completed,    \* the pool: the tasks that have returned, as they returned
    final_df,     \* the csv file as process_pdf wrote it (line 55)
    csv,          \* the csv file
    cleaned,      \* what clean_csv returned
    ri,           \* process_csv: the row of the for loop (index in csv)
    details,      \* process_csv: the lawyers still to be mailed for the row
    cst,          \* clean_csv: current_case / current and the rows emitted
    fetch,        \* history: the fetch_list call that has just returned
    fetched,      \* history: fetch_list calls of this invocation, per court
    wm0,          \* history: the watermarks when this invocation began
    withRecords,  \* history: per court, the documents of this invocation
                  \*          that were processed and gave a record
    zero,         \* history: per court, the accepted documents of this
                  \*          invocation that have given no record
    zeroPrev,     \* history: zero of the invocation before this one
    fetchRaised,  \* history: the courts whose fetch_list raised in this
                  \*          invocation
    lookupRaisedAt, \* history: per court, the file of pdf_files (index) in
                  \*          which get_user_detail first raised in this
                  \*          invocation, 0 when none has
    lookups,      \* history: the get_user_detail calls for this document,
                  \*          with the advocates read back from the row
    attempts      \* history: the send_email calls for this document

vars ==
    << watermark, temp_pdf, temp_csv, pc, ci, pdf_files, pi, num_pages,
       chunk_size, page_ranges, completed, final_df, csv, cleaned, ri,
       details, cst, fetch, fetched, wm0, withRecords, zero, zeroPrev,
       fetchRaised, lookupRaisedAt,
       lookups, attempts >>

docVars ==
    << num_pages, chunk_size, page_ranges, completed, final_df, csv, cleaned,
       ri, details, lookups, attempts >>

histVars ==
    << fetched, wm0, withRecords, zero, zeroPrev, fetchRaised, lookupRaisedAt >>

NoFetch == [court |-> "none"]

Court == CourtOrder[ci]

Doc == pdf_files[pi]

\* No document is being processed
DocIdle ==
    /\ num_pages' = 0
    /\ chunk_size' = DefaultChunkSize
    /\ page_ranges' = <<>>
    /\ completed' = <<>>
    /\ final_df' = <<>>
    /\ csv' = <<>>
    /\ cleaned' = FALSE
    /\ ri' = 0
    /\ details' = <<>>
    /\ lookups' = <<>>
    /\ attempts' = <<>>

InitCommon ==
    /\ watermark = [c \in Courts |-> NoDate]
    /\ temp_pdf = {}
    /\ temp_csv = {}
    /\ num_pages = 0
    /\ chunk_size = DefaultChunkSize
    /\ page_ranges = <<>>
    /\ completed = <<>>
    /\ final_df = <<>>
    /\ csv = <<>>
    /\ cleaned = FALSE
    /\ ri = 0
    /\ details = <<>>
    /\ cst = GInit
    /\ fetch = NoFetch
    /\ fetched = [c \in Courts |-> 0]
    /\ wm0 = [c \in Courts |-> NoDate]
    /\ withRecords = [c \in Courts |-> {}]
    /\ zero = [c \in Courts |-> {}]
    /\ zeroPrev = [c \in Courts |-> {}]
    /\ fetchRaised = {}
    /\ lookupRaisedAt = [c \in Courts |-> 0]
    /\ lookups = <<>>
    /\ attempts = <<>>

\* main() is called with the courts table as created (no list seen yet)
Init ==
    /\ InitCommon
    /\ pc = "court"
    /\ ci = 1
    /\ pdf_files = NoFiles
    /\ pi = 0

(***************************************************************************)
(* main                                                                    *)
(***************************************************************************)

\* The for loop of main moves to the next court, or main goes on to line 82
NextCourt ==
    /\ pdf_files' = NoFiles
    /\ pi' = 0
    /\ IF ci < Len(CourtOrder)
       THEN pc' = "court" /\ ci' = ci + 1
       ELSE pc' = "cleanup" /\ ci' = ci

\* process_pdf has returned to the for loop over pdf_files
NextFile ==
    IF pi < Len(pdf_files)
    THEN pc' = "file" /\ pi' = pi + 1 /\ UNCHANGED << ci, pdf_files >>
    ELSE NextCourt

\* lines 72-73: court_instance.fetch_list() for the court of the loop
Fetch ==
    /\ pc = "court"
    /\ \E L \in Listings, fail \in -1..MaxList :
         LET r == FetchList(Court, watermark[Court], L, fail)
         IN  /\ fail <= Len(L)
             /\ watermark' = [watermark EXCEPT ![Court] = r.wm]
             /\ temp_pdf' = temp_pdf \cup {r.downloaded[k] : k \in 1..Len(r.downloaded)}
             /\ pdf_files' = r.ret
             /\ fetch' = [court |-> Court, listing |-> L, before |-> watermark[Court],
                          raised |-> r.raised, examined |-> r.examined,
                          downloaded |-> r.downloaded, ret |-> r.ret]
             /\ fetchRaised' = IF r.raised THEN fetchRaised \cup {Court}
                                           ELSE fetchRaised
    /\ fetched' = [fetched EXCEPT ![Court] = @ + 1]
    /\ zero' = [zero EXCEPT ![Court] = {pdf_files'[k] : k \in 1..Len(pdf_files')}]
    /\ pc' = "fetched"
    /\ UNCHANGED << temp_csv, ci, pi, docVars, cst, wm0, withRecords, zeroPrev,
                    lookupRaisedAt >>

\* lines 75-80: the for loop over pdf_files, or the warning
AfterFetch ==
    /\ pc = "fetched"
    /\ fetch' = NoFetch
    /\ IF pdf_files # NoFiles
       THEN pc' = "file" /\ pi' = 1 /\ UNCHANGED << ci, pdf_files >>
       ELSE NextCourt
    /\ UNCHANGED << watermark, temp_pdf, temp_csv, docVars, cst, histVars >>

\* lines 83-92: the files of temp_csv and temp_pdf are removed
Cleanup ==
    /\ pc = "cleanup"
    /\ temp_csv' = {}
    /\ temp_pdf' = {}
    /\ pc' = "done"
    /\ UNCHANGED << watermark, ci, pdf_files, pi, docVars, cst, fetch, histVars >>

\* main is run again (a later invocation of the script)
NewInvocation ==
    /\ pc \in {"done", "crashed"}
    /\ pc' = "court"
    /\ ci' = 1
    /\ pdf_files' = NoFiles
    /\ pi' = 0
    /\ DocIdle
    /\ fetched' = [c \in Courts |-> 0]
    /\ wm0' = watermark
    /\ withRecords' = [c \in Courts |-> {}]
    /\ zeroPrev' = zero
    /\ fetchRaised' = {}
    /\ lookupRaisedAt' = [c \in Courts |-> 0]
    /\ zero' = [c \in Courts |-> {}]
    /\ UNCHANGED << watermark, temp_pdf, temp_csv, cst, fetch >>

(***************************************************************************)
(* process_pdf                                                             *)
(***************************************************************************)

\* lines 39-47: the page count, the page ranges, the tasks given to the pool
PdfCall(n, size) ==
    /\ pc = "file"
    /\ IF n < 2
       THEN NextFile /\ DocIdle
       ELSE /\ pc' = "pool"
            /\ num_pages' = n
            /\ chunk_size' = size
            /\ page_ranges' = PageRanges(n, size)
            /\ completed' = <<>>
            /\ UNCHANGED << ci, pdf_files, pi, final_df, csv, cleaned, ri, details,
                            lookups, attempts >>
    /\ UNCHANGED << watermark, temp_pdf, temp_csv, cst, fetch, histVars >>

\* main line 78: process_pdf(court_name, pdf_file); get_page_count returns
\* 0 when the pdf cannot be read
PdfStart ==
    /\ pc = "file"
    /\ \E n \in {DocPages(Doc), 0} : PdfCall(n, DefaultChunkSize)

Pending == {k \in 1..Len(page_ranges) : \A j \in 1..Len(completed) : completed[j].k # k}

\* extract_csv_wrapper for one page range returns in a worker of the pool:
\* the table, or None (no table found, or camelot raised)
ChunkDone ==
    /\ pc = "pool"
    /\ \E k \in Pending :
         \E t \in {Found(ChunkTable(Court, k)), NoTable} :
           completed' = Append(completed, [k |-> k, df |-> t])
    /\ UNCHANGED << watermark, temp_pdf, temp_csv, pc, ci, pdf_files, pi, num_pages,
                    chunk_size, page_ranges, final_df, csv, cleaned, ri, details,
                    cst, fetch, histVars, lookups, attempts >>

\* StarmapResults in the order the tasks returned (imap_unordered)
StarmapAsCompleted(done, n) == [k \in 1..n |-> done[k].df]

\* pool.starmap: the results in the order of the arguments
StarmapResults(done, n) ==
    [k \in 1..n |-> done[CHOOSE j \in 1..Len(done) : done[j].k = k].df]

\* The document has given a record: the cleaned file has a row after its header
GaveRecord(ok, rows) == ok /\ Len(rows) > 1

\* lines 47-63, once every task has returned: the tables are concatenated
\* and written, clean_csv rewrites the file, process_csv opens it
PdfMerge ==
    /\ pc = "pool"
    /\ Pending = {}
    /\ LET valid == ValidResults(StarmapResults(completed, Len(page_ranges)))
           clean == CleanCsv(Court, ToCsv(valid))
       IN  IF valid = <<>>
           THEN /\ NextFile /\ DocIdle
                /\ UNCHANGED << temp_csv, withRecords, zero >>
           ELSE /\ final_df' = ToCsv(valid)
                /\ csv' = clean.rows
                /\ cleaned' = clean.ok
                /\ temp_csv' = temp_csv \cup {Doc}
                /\ withRecords' =
                       IF GaveRecord(clean.ok, clean.rows)
                       THEN [withRecords EXCEPT ![Court] = @ \cup {Doc}]
                       ELSE withRecords
                /\ zero' =
                       IF GaveRecord(clean.ok, clean.rows)
                       THEN [zero EXCEPT ![Court] = @ \ {Doc}]
                       ELSE zero
                /\ ri' = 2
                /\ pc' = IF Len(clean.rows) >= 2 THEN "csv" ELSE "csvdone"
                /\ UNCHANGED << ci, pdf_files, pi, num_pages, chunk_size, page_ranges,
                                completed, details, lookups, attempts >>
    /\ UNCHANGED << watermark, temp_pdf, cst, fetch, fetched, wm0, zeroPrev,
                    fetchRaised, lookupRaisedAt >>

(***************************************************************************)
(* process_csv, get_user_detail, send_email                                *)
(***************************************************************************)

Record(c, header, row) ==
    IF c = "Gauhati_court" THEN SuperRecord(header, row) ELSE AllahabadRecord(row)

\* Where an exception of get_user_detail ends: Super_Class.process_csv
\* catches it (line 145); Allahabad_court.process_csv does not, nor does
\* process_pdf, so it reaches the except of main (line 93)
LookupRaisedPc(c) == IF c = "Gauhati_court" THEN "csvdone" ELSE "crashed"

\* the for loop of process_csv moves to the next row
NextRow == IF ri < Len(csv) THEN ri' = ri + 1 /\ pc' = "csv" ELSE ri' = ri /\ pc' = "csvdone"

\* One pass of the for loop of process_csv up to the for loop over details
\* (lines 136-142, 447-466): get_user_detail is called for every row, with
\* whatever the case-number cell holds. found = FALSE: psycopg2 raises.
ProcessRow ==
    /\ pc = "csv"
    /\ LET rec == Record(Court, csv[1], csv[ri])
       IN  IF Court = "Gauhati_court" /\ SuperKeyError(csv[1])
           THEN /\ pc' = "csvdone"
                /\ UNCHANGED << ri, details, lookups, lookupRaisedAt >>
           ELSE \E found \in BOOLEAN :
                  /\ lookups' = Append(lookups,
                         [ri |-> ri, case_no |-> rec.case_number,
                          petitioner_advocates |-> rec.petitioner_advocates,
                          respondent_advocates |-> rec.respondent_advocates,
                          found |-> found])
                  /\ lookupRaisedAt' =
                         IF ~found /\ lookupRaisedAt[Court] = 0
                         THEN [lookupRaisedAt EXCEPT ![Court] = pi]
                         ELSE lookupRaisedAt
                  /\ IF ~found
                     THEN /\ pc' = LookupRaisedPc(Court)
                          /\ UNCHANGED << ri, details >>
                     ELSE IF Lawyers(rec.case_number) # <<>>
                     THEN /\ details' = Lawyers(rec.case_number)
                          /\ pc' = "send"
                          /\ UNCHANGED ri
                     ELSE /\ NextRow
                          /\ UNCHANGED details
    /\ UNCHANGED << watermark, temp_pdf, temp_csv, ci, pdf_files, pi, num_pages,
                    chunk_size, page_ranges, completed, final_df, csv, cleaned,
                    cst, fetch, fetched, wm0, withRecords, zero, zeroPrev,
                    fetchRaised, attempts >>

\* AfterSend leaving the loop when a mail was not sent
AfterSendAbort(todo, sent) == IF sent THEN Tail(todo) ELSE <<>>

\* What the for loop over details does after send_email returned for the
\* first of todo: send_email caught what smtplib raised (line 128)
AfterSend(todo, sent) == Tail(todo)

\* lines 143-144, 467-468: send_email for the next lawyer of the row
Send ==
    /\ pc = "send"
    /\ \E sent \in BOOLEAN :
         /\ attempts' = Append(attempts, [ri |-> ri, to |-> Head(details), sent |-> sent])
         /\ details' = AfterSend(details, sent)
         /\ IF details' = <<>> THEN NextRow ELSE UNCHANGED << pc, ri >>
    /\ UNCHANGED << watermark, temp_pdf, temp_csv, ci, pdf_files, pi, num_pages,
                    chunk_size, page_ranges, completed, final_df, csv, cleaned,
                    cst, fetch, histVars, lookups >>

\* process_csv and process_pdf return
EndDoc ==
    /\ pc = "csvdone"
    /\ NextFile
    /\ DocIdle
    /\ UNCHANGED << watermark, temp_pdf, temp_csv, cst, fetch, histVars >>

Next ==
    \/ Fetch
    \/ AfterFetch
    \/ PdfStart
    \/ ChunkDone
    \/ PdfMerge
    \/ ProcessRow
    \/ Send
    \/ EndDoc
    \/ Cleanup
    \/ NewInvocation

Spec == Init /\ [][Next]_vars

(***************************************************************************)
(* Properties of the pipeline (Spec)                                       *)
(***************************************************************************)

\* The date a persisted watermark spells (0: none persisted)
WmDate(wm) == wm.d

\* The documents of court c processed to the end with at least one record
FullyProcessed(c) ==
    {d \in withRecords[c] :
        ~(pc \in {"csv", "send", "csvdone"} /\ Court = c /\ Doc = d)}

\* C1: the persisted watermark of a court differs from its value at the
\* start of the invocation only once a document of that date has been
\* processed to the end and has given at least one record.
C1_WatermarkOnlyAfterRecords ==
    \A c \in Courts :
        watermark[c] # wm0[c] => WmDate(watermark[c]) \in FullyProcessed(c)

ListingDates(L) == {L[i].d : i \in 1..Len(L)}

SeqRange(q) == {q[i] : i \in 1..Len(q)}

\* C2: a document the invocation before accepted without getting a record
\* from it, and that the listing still shows, is accepted again by a fetch
\* that does not fail.
C2_ZeroRecordDocumentRetried ==
    (pc = "fetched" /\ ~fetch.raised) =>
        \A d \in zeroPrev[fetch.court] :
            d \in ListingDates(fetch.listing) => d \in SeqRange(fetch.ret)

\* C3: no step moves the persisted watermark of a court backwards.
C3_WatermarkMonotone ==
    [][\A c \in Courts : WmDate(watermark'[c]) >= WmDate(watermark[c])]_vars

\* A fetch that raised after it had downloaded a list, in an invocation
\* that began with a watermark another invocation had advanced
C3_Witness ==
    /\ pc = "fetched"
    /\ fetch.raised
    /\ fetch.downloaded # <<>>
    /\ WmDate(watermark[fetch.court]) > 0
    /\ watermark[fetch.court] = wm0[fetch.court]

\* The effective watermark of the fetch that has just returned
Effective(f) == IF f.before = NoDate THEN Today ELSE f.before.d

\* The length of the longest prefix of L whose dates are all newer than e
NewerCount(L, e) ==
    CHOOSE n \in 0..Len(L) :
        /\ \A i \in 1..n : L[i].d > e
        /\ n < Len(L) => L[n + 1].d <= e

\* C4: a fetch downloads only entries of the longest prefix of the listing
\* that is strictly newer than the effective watermark, in order, examines
\* no entry after the first that is not newer, and when nothing fails the
\* documents it accepts are exactly that prefix.
C4_AcceptsNewerPrefix ==
    pc = "fetched" =>
        LET n == IF fetch.before.tail THEN 0
                 ELSE NewerCount(fetch.listing, Effective(fetch))
        IN  /\ Len(fetch.downloaded) <= n
            /\ \A i \in 1..Len(fetch.downloaded) :
                   fetch.downloaded[i] = fetch.listing[i].d
            /\ fetch.examined <= n + 1
            /\ ~fetch.raised =>
                   /\ fetch.ret = [i \in 1..n |-> fetch.listing[i].d]
                   /\ fetch.downloaded = fetch.ret

\* A fetch with a persisted watermark that took the first entry and broke
\* off at the second, which carries the watermark's own date
C4_Witness ==
    /\ pc = "fetched"
    /\ ~fetch.raised
    /\ fetch.before # NoDate
    /\ Len(fetch.ret) = 1
    /\ Len(fetch.listing) = 2
    /\ fetch.listing[2].d = fetch.before.d

\* C7: when main has ended, fetch_list has been called exactly once for
\* every court.
C7_EveryCourtFetchedOnce ==
    pc \in {"done", "crashed"} => \A c \in Courts : fetched[c] = 1

\* The rows of the document whose lookup gave lawyers
Matched == {j \in 1..Len(lookups) : lookups[j].found /\ Lawyers(lookups[j].case_no) # <<>>}

Attempts(r, w) == {j \in 1..Len(attempts) : attempts[j].ri = r /\ attempts[j].to = w}

RowDone(r) == pc \in {"csvdone", "crashed"} \/ ri > r

\* C8: no (row, lawyer) pair is mailed twice, and once the loop has left a
\* row each lawyer matched to it has been mailed exactly once, whatever
\* send_email met.
C8_OneAttemptPerLawyer ==
    \A j \in Matched :
        \A k \in 1..Len(Lawyers(lookups[j].case_no)) :
            LET n == Cardinality(Attempts(lookups[j].ri, Lawyers(lookups[j].case_no)[k]))
            IN  /\ n <= 1
                /\ RowDone(lookups[j].ri) => n = 1

\* A mail that failed, a later mail for the same row, and a mail for a
\* later row
C8_Witness ==
    \E i, j, k \in 1..Len(attempts) :
        /\ i < j /\ j < k
        /\ ~attempts[i].sent
        /\ attempts[j].ri = attempts[i].ri
        /\ attempts[k].ri > attempts[i].ri

\* The case number is one token of the form TYPE/number/year
ValidCaseNumber(case_no) == Len(case_no) = 1 /\ case_no[1] \in CaseTokens

\* C9: get_user_detail is called only with a case number of the
\* jurisdiction's form.
C9_NoLookupWithoutCaseNumber ==
    \A j \in 1..Len(lookups) : ValidCaseNumber(lookups[j].case_no)

(***************************************************************************)
(* process_pdf alone (SpecPdf): one document, every page count up to       *)
(* MaxPages and every chunk size up to MaxChunk, until process_csv opens   *)
(* the file                                                                *)
(***************************************************************************)

MaxPages == 7
MaxChunk == 3

InitPdf ==
    /\ InitCommon
    /\ pc = "file"
    /\ ci \in 1..Len(CourtOrder)
    /\ pdf_files = <<2>>
    /\ pi = 1

\* process_pdf(court_name, pdf_file, chunk_size) on a pdf of n pages
PdfAny ==
    /\ pc = "file"
    /\ \E n \in 0..MaxPages, size \in 1..MaxChunk : PdfCall(n, size)

NextPdf ==
    \/ PdfAny
    \/ ChunkDone
    \/ PdfMerge

SpecPdf == InitPdf /\ [][NextPdf]_vars

InRange(p, r) == r[1] <= p /\ p <= r[2]

\* C5: the page ranges given to the pool partition the pages 2..num_pages:
\* every range holds at most chunk_size pages and starts after page 1, and
\* every page from 2 to the last lies in exactly one range.
C5_RangesPartitionPages ==
    pc = "pool" =>
        /\ \A k \in 1..Len(page_ranges) :
               /\ page_ranges[k][1] >= 2
               /\ page_ranges[k][2] - page_ranges[k][1] + 1 <= chunk_size
        /\ \A p \in 2..num_pages :
               Cardinality({k \in 1..Len(page_ranges) : InRange(p, page_ranges[k])}) = 1

\* The page ranges whose task returned a table, in ascending order
TablesInPageOrder ==
    LET ok == {completed[j].k : j \in {i \in 1..Len(completed) : completed[i].df # NoTable}}
        ks == SortedSeq(ok)
    IN  [i \in 1..Len(ks) |-> ChunkTable(Court, ks[i])]

\* C6: the file handed to clean_csv exists only once every task of the
\* document has returned, and its rows are the tables of the page ranges in
\* ascending order of page range, whatever order the tasks returned in.
C6_MergedInPageOrder ==
    final_df # <<>> =>
        /\ Pending = {}
        /\ final_df = ToCsv(TablesInPageOrder)

\* Three tasks that returned a table each, the last page range first
C6_Witness ==
    /\ final_df # <<>>
    /\ Len(completed) = 3
    /\ completed[1].k = 3
    /\ completed[2].k = 1
    /\ \A j \in 1..3 : completed[j].df # NoTable

(***************************************************************************)
(* clean_csv alone (SpecClean): the file process_pdf wrote for one table   *)
(* of up to MaxRows rows, one row of the loop at a time                    *)
(***************************************************************************)

MaxRows == 3

\* Rows camelot can hand over for a Gauhati cause list
GauhatiRows ==
    { << Cell("1"), Cell("A/1/2024"), Cell("X"), Cell("Adv1"), <<>> >>,
      << Cell("2"), <<>>, <<"THE", " ", "P">>, <<>>, Cell("Adv3") >>,
      << <<>>, <<>>, <<"Versus", " ", "Y">>, <<>>, <<>> >>,
      << <<>>, <<>>, Cell("Z"), Cell("Adv2"), <<>> >>,
      << <<>>, <<"in", " ", "B/2/2024">>, Cell("Q"), <<>>, <<>> >>,
      << <<>>, Cell("WITH"), <<>>, <<>>, <<>> >>,
      << <<>>, Cell("C/3/2024"), <<>>, <<>>, <<>> >>,
      << Cell("Note"), <<>>, Cell("R"), <<>>, <<>> >> }

\* Rows camelot can hand over for an Allahabad cause list
AllahabadRows ==
    { << Cell("1"), <<"WRIT", " ", "A/1/2024">>, Cell("X") >>,
      << Cell("2"), Cell("P"), <<>> >>,
      << <<>>, <<>>, <<"Versus", " ", "Y">> >>,
      << Cell(" "), Cell("Adv1"), <<>> >>,
      << <<>>, Cell("B/2/2024"), Cell("Q") >> }

\* Rows of a document in which camelot finds a single column
NarrowRows == { <<Cell("1")>>, <<Cell("Note")>>, << <<>> >> }

Headings == <<Boiler(1), Boiler(2), Boiler(3), Boiler(4)>>

TablesOf(rows) == UNION {[1..n -> rows] : n \in 1..MaxRows}

\* The files process_pdf writes (line 55) before it calls clean_csv
CleanInputs(c) ==
    {ToCsv(<<t>>) : t \in TablesOf(NarrowRows)}
    \cup IF c = "Gauhati_court" THEN {ToCsv(<<t>>) : t \in TablesOf(GauhatiRows)}
         ELSE {ToCsv(<<t>>) : t \in TablesOf(AllahabadRows)}
              \cup {ToCsv(<<Headings \o t>>) : t \in TablesOf(AllahabadRows)}

CleanInit(c) == IF c = "Gauhati_court" THEN GInit ELSE AInit

CleanStep(c, st, rows, r) ==
    IF c = "Gauhati_court" THEN GStep(st, rows[r]) ELSE AStep(st, Padded(rows)[r])

CleanFinish(c, rows, st) ==
    IF c = "Gauhati_court" THEN GFinish(rows, st) ELSE AFinish(rows, st)

InitClean ==
    /\ watermark = [c \in Courts |-> NoDate]
    /\ temp_pdf = {2}
    /\ temp_csv = {2}
    /\ pc = "clean"
    /\ ci \in 1..Len(CourtOrder)
    /\ pdf_files = <<2>>
    /\ pi = 1
    /\ num_pages = 0
    /\ chunk_size = DefaultChunkSize
    /\ page_ranges = <<>>
    /\ completed = <<>>
    /\ final_df \in CleanInputs(CourtOrder[ci])
    /\ csv = final_df
    /\ cleaned = FALSE
    /\ ri = 1
    /\ details = <<>>
    /\ cst = CleanInit(CourtOrder[ci])
    /\ fetch = NoFetch
    /\ fetched = [c \in Courts |-> 0]
    /\ wm0 = [c \in Courts |-> NoDate]
    /\ withRecords = [c \in Courts |-> {}]
    /\ zero = [c \in Courts |-> {}]
    /\ zeroPrev = [c \in Courts |-> {}]
    /\ fetchRaised = {}
    /\ lookupRaisedAt = [c \in Courts |-> 0]
    /\ lookups = <<>>
    /\ attempts = <<>>

\* One pass of the loop of clean_csv over the rows of the file
CleanRow ==
    /\ pc = "clean"
    /\ ri <= Len(final_df)
    /\ cst' = CleanStep(Court, cst, final_df, ri)
    /\ ri' = ri + 1
    /\ UNCHANGED << watermark, temp_pdf, temp_csv, pc, ci, pdf_files, pi, num_pages,
                    chunk_size, page_ranges, completed, final_df, csv, cleaned,
                    details, fetch, histVars, lookups, attempts >>

\* The loop has ended: the open record is flushed and the file rewritten,
\* or the except clause returns
CleanEnd ==
    /\ pc = "clean"
    /\ ri > Len(final_df)
    /\ csv' = CleanFinish(Court, final_df, cst).rows
    /\ cleaned' = CleanFinish(Court, final_df, cst).ok
    /\ pc' = "cleaned"
    /\ UNCHANGED << watermark, temp_pdf, temp_csv, ci, pdf_files, pi, num_pages,
                    chunk_size, page_ranges, completed, final_df, ri, details, cst,
                    fetch, histVars, lookups, attempts >>

NextClean ==
    \/ CleanRow
    \/ CleanEnd

SpecClean == InitClean /\ [][NextClean]_vars

\* The loop taken row by row ends where clean_csv taken whole ends
CleanStepwiseAgrees ==
    pc = "cleaned" => [ok |-> cleaned, rows |-> csv] = CleanCsv(Court, final_df)

\* The rows of the input that open a row of the Allahabad output
AOpening(rows) ==
    {r \in 1..Len(rows) : r = 1 \/ Strip(Padded(rows)[r][1]) # <<>>}

\* Input row r is not boilerplate: for Allahabad, not merged into one of
\* the five rows dropped at line 435
Counted(c, rows, r) ==
    c = "Allahabad_court" =>
        Cardinality({o \in AOpening(rows) : o <= r}) > DropRows

\* The cell is a grouping annotation
IsWithCell(cell) == Contains(cell, <<"WITH">>)

\* C10: after a successful clean_csv, the content of every non-empty cell
\* of every input row that is not boilerplate is found in some cell of some
\* output record.
C10_EveryCellKept ==
    (pc = "cleaned" /\ cleaned) =>
        \A r \in 1..Len(final_df) :
            \A j \in 1..Len(final_df[r]) :
                (/\ Counted(Court, final_df, r)
                 /\ Strip(final_df[r][j]) # <<>>
                 /\ ~IsWithCell(final_df[r][j]))
                => \E r2 \in 2..Len(csv) :
                       \E j2 \in 1..Len(csv[r2]) :
                           Contains(csv[r2][j2], Strip(final_df[r][j]))

\* The same for the Allahabad reconstructor alone
AllahabadKeepsCells == Court = "Allahabad_court" => C10_EveryCellKept

(***************************************************************************)
(* Properties of the reconstructors (SpecClean)                            *)
(***************************************************************************)

\* A row whose leading cell, trimmed, is a non-empty all-digit token
IsStartRow(row) == Len(row) > 0 /\ IsDigit(Strip(row[1]))

\* The start rows of a file, in the order of the file
StartRows(rows) == SortedSeq({r \in 1..Len(rows) : IsStartRow(rows[r])})

\* s begins with p
StartsWith(s, p) == Len(p) <= Len(s) /\ SubSeq(s, 1, Len(p)) = p

GauhatiCleaned == pc = "cleaned" /\ cleaned /\ Court = "Gauhati_court"

RecordRows(rows, i) ==
    LET starts == StartRows(rows)
        last   == IF i < Len(starts) THEN starts[i + 1] - 1 ELSE Len(rows)
    IN  SubSeq(rows, starts[i], last)

NonEmpty(cell) == cell # <<>>

\* The trimmed non-empty cells of column k of the i-th record's rows
TrimmedCells(rows, i, k) ==
    LET rs == RecordRows(rows, i)
    IN  SelectSeq([r \in 1..Len(rs) |->
                      IF Len(rs[r]) >= k THEN Strip(rs[r][k]) ELSE <<>>], NonEmpty)

\* C12: the petitioner (respondent) advocates process_csv reads back for a
\* record of a cleaned Gauhati file are the trimmed non-empty petitioner
\* (respondent) cells of the record's start row and continuation rows, in
\* order, with nothing else inside an element.
C12_AdvocateListsRoundTrip ==
    (Court = "Gauhati_court" /\ cleaned) =>
        \A j \in 1..Len(lookups) :
            /\ lookups[j].petitioner_advocates =
                   TrimmedCells(final_df, lookups[j].ri - 1, 4)
            /\ lookups[j].respondent_advocates =
                   TrimmedCells(final_df, lookups[j].ri - 1, 5)

(***************************************************************************)
(* A page range that gives no table (SpecPdf)                              *)
(***************************************************************************)

\* The tasks that returned None / a table
FailedChunks == {completed[j].k : j \in {i \in 1..Len(completed) : completed[i].df = NoTable}}

GoodChunks == {completed[j].k : j \in {i \in 1..Len(completed) : completed[i].df # NoTable}}

\* C13: once every task of a document has returned and at least one gave a
\* table, the next step writes the file from the tables of the page ranges
\* that gave one, in ascending order of page range and with no row for a
\* page range that failed, clean_csv rewrites it and process_csv reads it.
C13_FailedChunkIsolated ==
    [][(pc = "pool" /\ Pending = {} /\ GoodChunks # {}) =>
          /\ final_df' = ToCsv(TablesInPageOrder)
          /\ Len(final_df') = 1 + Len(Concat(TablesInPageOrder))
          /\ csv' = CleanCsv(Court, final_df').rows
          /\ Doc \in temp_csv'
          /\ pc' \in {"csv", "csvdone"}
          /\ pc' = "csvdone" => Len(csv') < 2]_vars

\* Three page ranges, the second without a table, the third returned
\* first; the file holds the tables of the first and the third and
\* process_csv is at its first row
C13_Witness ==
    /\ pc = "csv"
    /\ Len(page_ranges) = 3
    /\ FailedChunks = {2}
    /\ completed[1].k = 3
    /\ final_df = ToCsv(<<ChunkTable(Court, 1), ChunkTable(Court, 3)>>)

(***************************************************************************)
(* Failures inside one court (Spec)                                        *)
(***************************************************************************)

\* main is inside process_pdf
InDocument == pc \in {"file", "pool", "csv", "send", "csvdone"}

LastLookupRaised == lookups # <<>> /\ ~lookups[Len(lookups)].found

\* C15: once get_user_detail has raised for a court, nothing more of that
\* court is looked up or mailed in this invocation: in the document where
\* it raised the failed call is the last one and no mail follows it, and
\* in the later documents of the court there is no call and no mail.
C15_LookupFailureAbortsSource ==
    lookupRaisedAt[Court] > 0 =>
        /\ pi = lookupRaisedAt[Court] =>
               /\ LastLookupRaised
               /\ pc \notin {"csv", "send"}
        /\ pi > lookupRaisedAt[Court] => lookups = <<>> /\ attempts = <<>>

\* C16: when main has ended, however it ended, temp_pdf and temp_csv hold
\* no file.
C16_ArtifactsRemovedAtEnd ==
    pc \in {"done", "crashed"} => temp_pdf = {} /\ temp_csv = {}

\* The second half of the same sentence: a file leaves temp_pdf or temp_csv
\* only in the step after the loop over the courts
RemovedOnlyAfterCourts ==
    [][(~(temp_pdf \subseteq temp_pdf') \/ ~(temp_csv \subseteq temp_csv'))
          => pc = "cleanup" /\ ci = Len(CourtOrder)]_vars

(***************************************************************************)
(* The loop of clean_csv, one row at a time (SpecClean)                    *)
(***************************************************************************)

\* The row the loop of clean_csv is at
LoopRow(c, rows, r) == IF c = "Gauhati_court" THEN rows[r] ELSE Padded(rows)[r]

\* A record is open in the state st of the loop
RecordOpen(c, st) == IF c = "Gauhati_court" THEN st.cur # NoCase ELSE st.open

\* The open record of st with the row merged into it by the court's rules
MergedInto(c, st, row) ==
    IF c = "Gauhati_court" THEN GMerge(st.cur, row)
    ELSE [i \in 1..Len(row) |-> AMergeCell(st.cur[i], row[i])]

\* A pass of the loop over one row
LoopPass == pc = "clean" /\ ri <= Len(final_df) /\ ri' = ri + 1

\* C17: in both courts a pass of the loop that does not raise treats the row
\* as a start row
\* exactly when its leading cell, trimmed, is a digit token: it then emits
\* the open record and opens one for the row; every other row emits and
\* opens nothing and, when a record is open, is merged into it.
C17_OneClassificationRule ==
    [][(LoopPass /\ ~cst'.err) =>
          LET row == LoopRow(Court, final_df, ri)
          IN  IF IsStartRow(row)
              THEN /\ cst'.out = IF RecordOpen(Court, cst)
                                 THEN Append(cst.out, cst.cur) ELSE cst.out
                   /\ RecordOpen(Court, cst')
                   /\ Strip(cst'.cur[1]) = Strip(row[1])
              ELSE /\ cst'.out = cst.out
                   /\ RecordOpen(Court, cst) =>
                          cst'.cur = MergedInto(Court, cst, row)]_vars

\* The number of rows of the table before its first start row
RECURSIVE PreambleLen(_)
PreambleLen(rows) ==
    IF rows = <<>> \/ IsStartRow(Head(rows)) THEN 0 ELSE 1 + PreambleLen(Tail(rows))

\* The table process_pdf wrote to the file (the rows after the header)
TableOf(file) == Tail(file)

\* C18: when the extracted table begins with rows that are not start rows
\* and goes on with rows R, the cleaned file is the one clean_csv writes
\* for the table R alone.
C18_PreambleIgnored ==
    (pc = "cleaned" /\ cleaned) =>
        LET T == TableOf(final_df)
            n == PreambleLen(T)
        IN  (0 < n /\ n < Len(T)) =>
                csv = CleanCsv(Court, ToCsv(<<SubSeq(T, n + 1, Len(T))>>)).rows

\* The join markers
JoinMarkers == {"Versus", "vs", "V."}

HasJoinMarker(s) == \E i \in 1..Len(s) : s[i] \in JoinMarkers

\* A pass of the Gauhati loop over a row that is not a start row while a
\* record is open
GauhatiContinuation ==
    /\ LoopPass
    /\ Court = "Gauhati_court"
    /\ ~IsStartRow(final_df[ri])
    /\ RecordOpen(Court, cst)

\* C19: a continuation row with a non-empty parties cell, met while a
\* record is open, leaves the record's parties as they were followed by
\* " vs " and the trimmed cell when the cell or the parties hold a join
\* marker, and by a space and the trimmed cell otherwise (the trimmed cell
\* alone when the parties were empty).
C19_PartiesGrowByCell ==
    [][(GauhatiContinuation /\ Len(final_df[ri]) > 2 /\ final_df[ri][3] # <<>>) =>
          LET cell    == Strip(final_df[ri][3])
              parties == cst.cur[3]
              sep     == IF HasJoinMarker(cell) \/ HasJoinMarker(parties)
                         THEN <<" ", "vs", " ">> ELSE <<" ">>
          IN  cst'.cur[3] = IF parties = <<>> THEN cell
                            ELSE parties \o sep \o cell]_vars

\* The case-number cell holds the in-reference marker and not "WITH"
IsInReference(cell) == Contains(cell, <<"in", " ">>) /\ ~Contains(cell, <<"WITH">>)

\* C20: a continuation row whose case-number cell holds "in " and not
\* "WITH", met while a record is open, leaves the record's case number as
\* it was followed by "; " and the trimmed cell (the trimmed cell, with or
\* without the separator before it, when the case number was empty),
\* whatever the row's other cells hold.
C20_InReferenceAppended ==
    [][(GauhatiContinuation /\ Len(final_df[ri]) > 1
            /\ IsInReference(final_df[ri][2])) =>
          LET cell    == Strip(final_df[ri][2])
              case_no == cst.cur[2]
          IN  IF case_no = <<>>
              THEN cst'.cur[2] \in {cell, <<";", " ">> \o cell}
              ELSE cst'.cur[2] = case_no \o <<";", " ">> \o cell]_vars

\* A row the Gauhati reconstructor cannot read: no cell at all, or a start
\* row without a case-number cell
Anomalous(row) == Len(row) = 0 \/ (IsStartRow(row) /\ Len(row) < 2)

AnomalousRows(rows) == {r \in 1..Len(rows) : Anomalous(rows[r])}

\* rows without its a-th row
WithoutRow(rows, a) == SubSeq(rows, 1, a - 1) \o SubSeq(rows, a + 1, Len(rows))

\* C21: when the file holds a single anomalous row, Gauhati_court.clean_csv
\* still succeeds and writes what it writes for the file without that row.
C21_AnomalousRowSkipped ==
    (pc = "cleaned" /\ Court = "Gauhati_court"
        /\ Cardinality(AnomalousRows(final_df)) = 1) =>
        LET a == CHOOSE r \in AnomalousRows(final_df) : TRUE
        IN  /\ cleaned
            /\ csv = GauhatiClean(WithoutRow(final_df, a)).rows

(***************************************************************************)
(* process_csv after clean_csv, and the writers of the watermark (Spec)    *)
(***************************************************************************)

\* C22: for a document whose clean_csv did not return True, get_user_detail
\* and send_email are not called.
C22_NoLookupAfterFailedClean ==
    (final_df # <<>> /\ ~cleaned) => lookups = <<>> /\ attempts = <<>>

\* A step in which fetch_list is called and returns
FetchStep == pc = "court" /\ pc' = "fetched"

=============================================================================
